---- MODULE Spec2Model ----
(***************************************************************************)
(* News Sentiment Analyzer (src/app.py): a Streamlit script that is re-run *)
(* from top to bottom on every user interaction.  The only state that      *)
(* survives a run is st.session_state.analysis_history and the             *)
(* st.cache_data entry of fetch_headlines_from_rss.                        *)
(*                                                                         *)
(* Text is a sequence of one-character strings.  A compound score is an    *)
(* integer number of ten-thousandths (the lexicon scorer rounds compound   *)
(* to four decimals), so 0.05 is 500 and the range [-1,1] is               *)
(* -10000..10000.  The scorer itself is a third-party library: a call      *)
(* returns any bundle of ScoreBundles.  The timestamp field of a history   *)
(* record (datetime.now()) is not modelled.                                *)
(***************************************************************************)
EXTENDS Integers, Sequences, FiniteSets, TLC

VARIABLES
    history,      \* st.session_state.analysis_history
    cache,        \* st.cache_data entry of fetch_headlines_from_rss
    pc,           \* position of the script run
    analysis_mode,\* sidebar radio
    button,       \* the button whose click started this run ("none": a widget edit)
    headline,     \* Single Headline text_input
    batch_input,  \* Batch Analysis text_area
    runStart,     \* the history as it stood when this run started
    stats,        \* what the sidebar Statistics block showed in this run
    msgs,         \* st.warning / st.error / st.success / st.info shown in this run
    headlines,    \* the list the batch / RSS loop iterates over
    i,            \* number of loop iterations done
    results,      \* the run's results list
    summary,      \* positive_count, negative_count, neutral_count and their deltas
    csv,          \* results_df.to_csv(index=False), as a sequence of rows
    divisors,     \* the divisors of the percentage divisions evaluated in this run
    response,     \* the HTTP exchange of this run's feed request ("none": no request made)
    fault,        \* an exception escaped the script run
    compound_in,  \* threshold scan: the compound score of the latest get_sentiment call
    label_out     \* threshold scan: the sentiment that call returned ("none": no call yet)

appVars == <<history, cache, pc, analysis_mode, button, headline, batch_input,
             runStart, stats, msgs, headlines, i, results, summary, csv,
             divisors, response, fault>>
labelVars == <<compound_in, label_out>>
vars == <<appVars, labelVars>>

----------------------------------------------------------------------------
(* Bounds of the model *)

MaxHistory == 3       \* no interaction is taken that would grow the history past this
MaxBlobLen == 4       \* characters of a text_area blob in the splitting specification
CompoundScale == 10000 \* the threshold scan covers -CompoundScale..CompoundScale (-1..1)

(* Program constants *)

PositiveThreshold == 500   \* 0.05 in ten-thousandths
RssMaxItems == 30          \* max_items passed by the Live RSS Feed branch

NegativeThreshold == 0 - PositiveThreshold

----------------------------------------------------------------------------
(* Python str helpers *)

Whitespace == {" ", "\t", "\n", "\r"}

RECURSIVE lstrip(_)
lstrip(s) ==
    IF s # <<>> /\ Head(s) \in Whitespace THEN lstrip(Tail(s)) ELSE s

RECURSIVE rstrip(_)
rstrip(s) ==
    IF s # <<>> /\ s[Len(s)] \in Whitespace
    THEN rstrip(SubSeq(s, 1, Len(s) - 1))
    ELSE s

\* str.strip()
strip(s) == rstrip(lstrip(s))

\* str.split(sep) for a one-character separator: always at least one piece
RECURSIVE split(_, _)
split(s, sep) ==
    IF \A k \in 1..Len(s) : s[k] # sep
    THEN <<s>>
    ELSE LET p == CHOOSE k \in 1..Len(s) :
                      s[k] = sep /\ \A j \in 1..(k - 1) : s[j] # sep
         IN  <<SubSeq(s, 1, p - 1)>> \o split(SubSeq(s, p + 1, Len(s)), sep)

\* a mutant of StripNonBlank: the filter is left out
RECURSIVE StripEvery(_)
StripEvery(lines) ==
    IF lines = <<>> THEN <<>>
    ELSE <<strip(Head(lines))>> \o StripEvery(Tail(lines))

\* [h.strip() for h in batch_input.split('\n') if h.strip()]
RECURSIVE StripNonBlank(_)
StripNonBlank(lines) ==
    IF lines = <<>> THEN <<>>
    ELSE IF strip(Head(lines)) # <<>>
         THEN <<strip(Head(lines))>> \o StripNonBlank(Tail(lines))
         ELSE StripNonBlank(Tail(lines))

SplitHeadlines(text) == StripNonBlank(split(text, "\n"))

----------------------------------------------------------------------------
(* get_sentiment *)

\* what analyzer.polarity_scores may return in a script run: a bundle on
\* each threshold and one just inside the neutral band
ScoreBundles ==
    { [compound |-> 500,  pos |-> 200, neu |-> 800, neg |-> 0],
      [compound |-> 499,  pos |-> 199, neu |-> 801, neg |-> 0],
      [compound |-> -500, pos |-> 0,   neu |-> 800, neg |-> 200] }

\* a mutant of Classify: open thresholds
ClassifyStrict(compound) ==
    IF compound > PositiveThreshold
    THEN [sentiment |-> "Positive", emoji |-> "smile", color |-> "green"]
    ELSE IF compound < NegativeThreshold
         THEN [sentiment |-> "Negative", emoji |-> "worried", color |-> "red"]
         ELSE [sentiment |-> "Neutral", emoji |-> "neutral", color |-> "gray"]

\* lines 49-60: the three-way threshold on the compound score
Classify(compound) ==
    IF compound >= PositiveThreshold
    THEN [sentiment |-> "Positive", emoji |-> "smile", color |-> "green"]
    ELSE IF compound <= NegativeThreshold
         THEN [sentiment |-> "Negative", emoji |-> "worried", color |-> "red"]
         ELSE [sentiment |-> "Neutral", emoji |-> "neutral", color |-> "gray"]

\* the tuple (sentiment, scores, emoji, color) for the bundle the scorer gave
get_sentiment(scores) ==
    [sentiment |-> Classify(scores.compound).sentiment,
     scores    |-> scores,
     emoji     |-> Classify(scores.compound).emoji,
     color     |-> Classify(scores.compound).color]

\* a mutant of HistoryRecord: the text_input value is stored, not the text classified
HistoryRecordStale(text, r) ==
    [headline |-> headline, sentiment |-> r.sentiment, compound |-> r.scores.compound]

\* the dict appended to st.session_state.analysis_history
HistoryRecord(text, r) ==
    [headline |-> text, sentiment |-> r.sentiment, compound |-> r.scores.compound]

----------------------------------------------------------------------------
(* Counting and percentages *)

\* sum(1 for item in records if item[...] == label), over the records' labels
RECURSIVE CountLabel(_, _)
CountLabel(labels, label) ==
    IF labels = <<>> THEN 0
    ELSE (IF Head(labels) = label THEN 1 ELSE 0) + CountLabel(Tail(labels), label)

HistoryLabels(h) == [k \in 1..Len(h) |-> h[k].sentiment]
ResultLabels(rs) == [k \in 1..Len(rs) |-> rs[k].Sentiment]

\* f"{(n/total*100):.1f}%" in tenths of a percent (round half to even);
\* the caller has ruled out total = 0
Percent(n, total) ==
    LET q == (n * 1000) \div total
        r == (n * 1000) % total
    IN  IF 2 * r > total \/ (2 * r = total /\ q % 2 = 1) THEN q + 1 ELSE q

NoStats == [kind |-> "pending", total |-> 0, positive |-> 0, negative |-> 0,
            neutral |-> 0, deltas |-> <<>>]

\* a mutant of SidebarMetrics: neutral counts every record that is not Positive
SidebarMetricsMiscount(h) ==
    LET total    == Len(h)
        positive == CountLabel(HistoryLabels(h), "Positive")
        negative == CountLabel(HistoryLabels(h), "Negative")
        neutral  == Len(h) - positive
    IN  IF total = 0
        THEN [shown |-> NoStats, divisors |-> {total}, raised |-> TRUE]
        ELSE [shown |-> [kind |-> "metrics", total |-> total,
                         positive |-> positive, negative |-> negative,
                         neutral |-> neutral,
                         deltas |-> <<Percent(positive, total),
                                      Percent(negative, total),
                                      Percent(neutral, total)>>],
              divisors |-> {total}, raised |-> FALSE]

\* lines 85-93: the metrics over a history h; total = 0 is a ZeroDivisionError
SidebarMetrics(h) ==
    LET total    == Len(h)
        positive == CountLabel(HistoryLabels(h), "Positive")
        negative == CountLabel(HistoryLabels(h), "Negative")
        neutral  == CountLabel(HistoryLabels(h), "Neutral")
    IN  IF total = 0
        THEN [shown |-> NoStats, divisors |-> {total}, raised |-> TRUE]
        ELSE [shown |-> [kind |-> "metrics", total |-> total,
                         positive |-> positive, negative |-> negative,
                         neutral |-> neutral,
                         deltas |-> <<Percent(positive, total),
                                      Percent(negative, total),
                                      Percent(neutral, total)>>],
              divisors |-> {total}, raised |-> FALSE]

\* a mutant of SidebarBlock: the test of line 84 is left out
SidebarBlockUnguarded(h) == SidebarMetrics(h)

\* the sidebar Statistics block over the history h: what is shown, the
\* divisors of the divisions evaluated, and whether one of them raised
SidebarBlock(h) ==
    IF h # <<>>
    THEN SidebarMetrics(h)
    ELSE [shown |-> [NoStats EXCEPT !.kind = "info"], divisors |-> {},
          raised |-> FALSE]

NoSummary == [shown |-> FALSE, positive_count |-> 0, negative_count |-> 0,
              neutral_count |-> 0, deltas |-> <<>>]

\* the summary metrics of a batch / RSS run over its results list
SummaryBlock(rs) ==
    LET positive_count == CountLabel(ResultLabels(rs), "Positive")
        negative_count == CountLabel(ResultLabels(rs), "Negative")
        neutral_count  == CountLabel(ResultLabels(rs), "Neutral")
    IN  IF Len(rs) = 0
        THEN [shown |-> NoSummary, divisors |-> {Len(rs)}, raised |-> TRUE]
        ELSE [shown |-> [shown |-> TRUE, positive_count |-> positive_count,
                         negative_count |-> negative_count,
                         neutral_count |-> neutral_count,
                         deltas |-> <<Percent(positive_count, Len(rs)),
                                      Percent(neutral_count, Len(rs)),
                                      Percent(negative_count, Len(rs))>>],
              divisors |-> {Len(rs)}, raised |-> FALSE]

----------------------------------------------------------------------------
(* Batch results table and its CSV export *)

\* the dict appended to results by the batch loop; its keys in insertion order
BatchRow(text, r) ==
    [Headline |-> text, Sentiment |-> r.sentiment, Emoji |-> r.emoji,
     Compound |-> r.scores.compound, Positive |-> r.scores.pos,
     Neutral |-> r.scores.neu, Negative |-> r.scores.neg]

BatchColumns ==
    <<"Headline", "Sentiment", "Emoji", "Compound", "Positive", "Neutral",
      "Negative">>

\* the dict appended to results by the RSS loop
RssRow(text, r) ==
    [Headline |-> text, Sentiment |-> r.sentiment, Emoji |-> r.emoji,
     Compound |-> r.scores.compound]

\* a mutant of to_csv: index=False is left out, so the row index leads each row
to_csv_indexed(rows) ==
    <<<<"">> \o BatchColumns>> \o
    [k \in 1..Len(rows) |->
        <<k - 1, rows[k].Headline, rows[k].Sentiment, rows[k].Emoji,
          rows[k].Compound, rows[k].Positive, rows[k].Neutral, rows[k].Negative>>]

\* pd.DataFrame(rows).to_csv(index=False): the header row, then a row of
\* cells per record, columns in the key order of the dicts
to_csv(rows) ==
    <<BatchColumns>> \o
    [k \in 1..Len(rows) |->
        <<rows[k].Headline, rows[k].Sentiment, rows[k].Emoji, rows[k].Compound,
          rows[k].Positive, rows[k].Neutral, rows[k].Negative>>]

----------------------------------------------------------------------------
(* fetch_headlines_from_rss *)

FetchFailures == {"connection_error", "timeout", "http_error", "parse_error"}

\* an <item>: with or without a <title> child
NoTitleItem == [has_title |-> FALSE, title |-> <<>>]
TitleItem(text) == [has_title |-> TRUE, title |-> text]

\* the item lists a feed may hold: no item, an item without a title
\* before one with a title, two items with titles
Feeds ==
    { <<>>,
      <<NoTitleItem, TitleItem(<<" ", "a">>)>>,
      <<TitleItem(<<"b", " ">>), TitleItem(<<" ", "a">>)>> }

\* what the HTTP exchange and the parse can come to
Responses ==
    {[status |-> f, items |-> <<>>] : f \in FetchFailures}
    \cup {[status |-> "ok", items |-> its] : its \in Feeds}

Min(a, b) == IF a <= b THEN a ELSE b

RECURSIVE Titles(_)
Titles(items) ==
    IF items = <<>> THEN <<>>
    ELSE IF Head(items).has_title
         THEN <<strip(Head(items).title)>> \o Titles(Tail(items))
         ELSE Titles(Tail(items))

\* a mutant of FetchBody: only the exceptions of requests are caught
FetchBodyNarrow(resp, max_items) ==
    IF resp.status = "parse_error"
    THEN [value |-> <<>>, error |-> FALSE, raised |-> TRUE]
    ELSE IF resp.status \in FetchFailures
    THEN [value |-> <<>>, error |-> TRUE, raised |-> FALSE]
    ELSE [value |-> Titles(SubSeq(resp.items, 1, Min(max_items, Len(resp.items)))),
          error |-> FALSE, raised |-> FALSE]

\* the function body: the value returned, whether st.error was shown, and
\* whether an exception left the function
FetchBody(resp, max_items) ==
    IF resp.status \in FetchFailures
    THEN [value |-> <<>>, error |-> TRUE, raised |-> FALSE]
    ELSE [value |-> Titles(SubSeq(resp.items, 1, Min(max_items, Len(resp.items)))),
          error |-> FALSE, raised |-> FALSE]

NoCache == [present |-> FALSE, value |-> <<>>, error |-> FALSE]

\* @st.cache_data: a hit returns the stored value and replays the stored
\* st.error element without running the body; a miss runs the body and
\* stores what it returned (nothing is stored when the body raises)
fetch_headlines_from_rss(c, resp, max_items) ==
    IF c.present
    THEN [value |-> c.value, error |-> c.error, raised |-> FALSE, cache |-> c,
          requested |-> FALSE]
    ELSE LET b == FetchBody(resp, max_items)
         IN  [value |-> b.value, error |-> b.error, raised |-> b.raised,
              cache |-> IF b.raised THEN c
                        ELSE [present |-> TRUE, value |-> b.value, error |-> b.error],
              requested |-> TRUE]

----------------------------------------------------------------------------
(* The script run *)

Modes == {"Single Headline", "Batch Analysis", "Live RSS Feed"}

\* the buttons a page in mode m offers; "none" is a run started by a widget edit
Buttons == {"none", "clear", "analyze", "analyze_all", "fetch"}

ButtonsOf(m) ==
    {"none", "clear"} \cup
    (IF m = "Single Headline" THEN {"analyze"}
     ELSE IF m = "Batch Analysis" THEN {"analyze_all"} ELSE {"fetch"})

\* what the user types into the Single Headline text_input
SingleInputs == { <<>>, <<" ">>, <<"a">> }

\* what the user types into the Batch Analysis text_area
BatchInputs ==
    { <<>>,
      <<" ", "\n", " ">>,
      <<" ", "a">>,
      <<"a", "\n", "\n", " ", "\n", "b", " ">>,
      <<"b", "\n", "a", "\n", "b">> }

\* the records a run started with these widget values appends at most,
\* when it does not depend on the network
Appends(m, b, h, t, c) ==
    IF b = "analyze" THEN (IF h # <<>> THEN 1 ELSE 0)
    ELSE IF b = "analyze_all" THEN Len(SplitHeadlines(t))
    ELSE IF b = "fetch" THEN Len(c.value)
    ELSE 0

AppInit ==
    /\ history = <<>>
    /\ cache = NoCache
    /\ pc = "idle"
    /\ analysis_mode = "Single Headline"
    /\ button = "none"
    /\ headline = <<>>
    /\ batch_input = <<>>
    /\ runStart = <<>>
    /\ stats = NoStats
    /\ msgs = {}
    /\ headlines = <<>>
    /\ i = 0
    /\ results = <<>>
    /\ summary = NoSummary
    /\ csv = <<>>
    /\ divisors = {}
    /\ response = "none"
    /\ fault = FALSE

\* the values a run starts with: nothing shown yet, no locals bound
StartRun(h) ==
    /\ runStart' = h
    /\ stats' = NoStats
    /\ msgs' = {}
    /\ headlines' = <<>>
    /\ i' = 0
    /\ results' = <<>>
    /\ summary' = NoSummary
    /\ csv' = <<>>
    /\ divisors' = {}
    /\ response' = "none"
    /\ fault' = FALSE

\* the user edits the widgets and clicks (or just edits): the script starts.
\* A text widget's value is used by the branch of its own button only
\* (lines 120, 176-177), so a run started otherwise is taken with it empty
UserInteraction ==
    /\ UNCHANGED labelVars
    /\ pc = "idle"
    /\ \E m \in Modes, b \in Buttons, h \in SingleInputs, t \in BatchInputs :
          /\ b \in ButtonsOf(m)
          /\ b # "analyze" => h = <<>>
          /\ b # "analyze_all" => t = <<>>
          /\ Len(history) + Appends(m, b, h, t, cache) <= MaxHistory
          /\ analysis_mode' = m
          /\ button' = b
          /\ headline' = h
          /\ batch_input' = t
    /\ StartRun(history)
    /\ pc' = "sidebar"
    /\ UNCHANGED <<history, cache>>

\* the ttl of the cache entry runs out between two runs
CacheExpire ==
    /\ UNCHANGED labelVars
    /\ pc = "idle"
    /\ cache.present
    /\ cache' = NoCache
    /\ UNCHANGED <<history, pc, analysis_mode, button, headline, batch_input,
                   runStart, stats, msgs, headlines, i, results, summary, csv,
                   divisors, response, fault>>

\* lines 73-95
Sidebar ==
    /\ UNCHANGED labelVars
    /\ pc = "sidebar"
    /\ LET block == SidebarBlock(history)
       IN  /\ stats' = block.shown
           /\ divisors' = divisors \cup block.divisors
           /\ fault' = block.raised
           /\ pc' = IF block.raised THEN "idle" ELSE "clear_button"
    /\ UNCHANGED <<history, cache, analysis_mode, button, headline, batch_input,
                   runStart, msgs, headlines, i, results, summary, csv, response>>

\* a mutant of ClearHistory: the script is run again, the list is not reset
ClearHistoryKeep ==
    /\ UNCHANGED labelVars
    /\ pc = "clear_button"
    /\ button = "clear"
    /\ history' = history
    /\ button' = "none"
    /\ StartRun(history)
    /\ pc' = "sidebar"
    /\ UNCHANGED <<cache, analysis_mode, headline, batch_input>>

\* lines 99-101: clear and st.rerun(), which starts the script again with
\* the same widget values and no button pressed
ClearHistory ==
    /\ UNCHANGED labelVars
    /\ pc = "clear_button"
    /\ button = "clear"
    /\ history' = <<>>
    /\ button' = "none"
    /\ StartRun(<<>>)
    /\ pc' = "sidebar"
    /\ UNCHANGED <<cache, analysis_mode, headline, batch_input>>

\* line 99, button not pressed
SkipClear ==
    /\ UNCHANGED labelVars
    /\ pc = "clear_button"
    /\ button # "clear"
    /\ pc' = "main"
    /\ UNCHANGED <<history, cache, analysis_mode, button, headline, batch_input,
                   runStart, stats, msgs, headlines, i, results, summary, csv,
                   divisors, response, fault>>

\* a mutant of SingleHeadline: the statistics are taken again after the append
SingleHeadlineRecount ==
    /\ UNCHANGED labelVars
    /\ pc = "main"
    /\ analysis_mode = "Single Headline"
    /\ IF button = "analyze" /\ headline # <<>>
       THEN \E scores \in ScoreBundles :
               LET r == get_sentiment(scores)
               IN  /\ history' = Append(history, HistoryRecord(headline, r))
                   /\ msgs' = msgs \cup {"Analysis Complete!"}
       ELSE UNCHANGED <<history, msgs>>
    /\ stats' = SidebarBlock(history').shown
    /\ pc' = "history_section"
    /\ UNCHANGED <<cache, analysis_mode, button, headline, batch_input, runStart,
                   headlines, i, results, summary, csv, divisors, response, fault>>

\* lines 104-165
SingleHeadline ==
    /\ UNCHANGED labelVars
    /\ pc = "main"
    /\ analysis_mode = "Single Headline"
    /\ IF button = "analyze" /\ headline # <<>>
       THEN \E scores \in ScoreBundles :
               LET r == get_sentiment(scores)
               IN  /\ history' = Append(history, HistoryRecord(headline, r))
                   /\ msgs' = msgs \cup {"Analysis Complete!"}
       ELSE UNCHANGED <<history, msgs>>
    /\ pc' = "history_section"
    /\ UNCHANGED <<cache, analysis_mode, button, headline, batch_input, runStart,
                   stats, headlines, i, results, summary, csv, divisors,
                   response, fault>>

\* lines 167-184 and 261-262
BatchAnalysis ==
    /\ UNCHANGED labelVars
    /\ pc = "main"
    /\ analysis_mode = "Batch Analysis"
    /\ IF button = "analyze_all"
       THEN IF batch_input # <<>>
            THEN /\ headlines' = SplitHeadlines(batch_input)
                 /\ pc' = IF headlines' # <<>> THEN "batch_loop" ELSE "history_section"
                 /\ msgs' = msgs
            ELSE /\ msgs' = msgs \cup {"Please enter at least one headline."}
                 /\ pc' = "history_section"
                 /\ headlines' = headlines
       ELSE /\ pc' = "history_section"
            /\ UNCHANGED <<headlines, msgs>>
    /\ UNCHANGED <<history, cache, analysis_mode, button, headline, batch_input,
                   runStart, stats, i, results, summary, csv, divisors,
                   response, fault>>

\* lines 185-206: one iteration of the batch loop
BatchIteration ==
    /\ UNCHANGED labelVars
    /\ pc = "batch_loop"
    /\ i < Len(headlines)
    /\ \E scores \in ScoreBundles :
          LET text == headlines[i + 1]
              r    == get_sentiment(scores)
          IN  /\ results' = Append(results, BatchRow(text, r))
              /\ history' = Append(history, HistoryRecord(text, r))
    /\ divisors' = divisors \cup {Len(headlines)}
    /\ i' = i + 1
    /\ UNCHANGED <<cache, pc, analysis_mode, button, headline, batch_input,
                   runStart, stats, msgs, headlines, summary, csv, response, fault>>

\* lines 208-260: after the loop
BatchSummary ==
    /\ UNCHANGED labelVars
    /\ pc = "batch_loop"
    /\ i = Len(headlines)
    /\ LET block == SummaryBlock(results)
       IN  /\ summary' = block.shown
           /\ divisors' = divisors \cup block.divisors
           /\ fault' = block.raised
           /\ pc' = IF block.raised THEN "idle" ELSE "history_section"
           /\ csv' = IF block.raised THEN csv ELSE to_csv(results)
    /\ msgs' = msgs \cup {"Analyzed headlines!"}
    /\ UNCHANGED <<history, cache, analysis_mode, button, headline, batch_input,
                   runStart, stats, headlines, i, results, response>>

\* lines 264-289 and 358-359, with the call of fetch_headlines_from_rss
LiveRssFeed ==
    /\ UNCHANGED labelVars
    /\ pc = "main"
    /\ analysis_mode = "Live RSS Feed"
    /\ IF button = "fetch"
       THEN \E resp \in Responses :
               LET call == fetch_headlines_from_rss(cache, resp, RssMaxItems)
               IN  /\ Len(history) + Len(call.value) <= MaxHistory
                   /\ cache' = call.cache
                   /\ response' = IF call.requested THEN resp.status ELSE "none"
                   /\ fault' = call.raised
                   /\ headlines' = IF call.raised THEN headlines ELSE call.value
                   /\ msgs' = msgs
                        \cup (IF call.error THEN {"RSS fetch failed"} ELSE {})
                        \cup (IF call.raised THEN {}
                              ELSE IF call.value # <<>> THEN {"Fetched headlines!"}
                              ELSE {"Failed to fetch headlines."})
                   /\ pc' = IF call.raised THEN "idle"
                            ELSE IF call.value # <<>> THEN "rss_loop"
                            ELSE "history_section"
       ELSE /\ pc' = "history_section"
            /\ UNCHANGED <<cache, response, fault, headlines, msgs>>
    /\ UNCHANGED <<history, analysis_mode, button, headline, batch_input,
                   runStart, stats, i, results, summary, csv, divisors>>

\* lines 292-310: one iteration of the RSS loop
RssIteration ==
    /\ UNCHANGED labelVars
    /\ pc = "rss_loop"
    /\ i < Len(headlines)
    /\ \E scores \in ScoreBundles :
          LET text == headlines[i + 1]
              r    == get_sentiment(scores)
          IN  /\ results' = Append(results, RssRow(text, r))
              /\ history' = Append(history, HistoryRecord(text, r))
    /\ divisors' = divisors \cup {Len(headlines)}
    /\ i' = i + 1
    /\ UNCHANGED <<cache, pc, analysis_mode, button, headline, batch_input,
                   runStart, stats, msgs, headlines, summary, csv, response, fault>>

\* lines 312-357: after the loop
RssSummary ==
    /\ UNCHANGED labelVars
    /\ pc = "rss_loop"
    /\ i = Len(headlines)
    /\ LET block == SummaryBlock(results)
       IN  /\ summary' = block.shown
           /\ divisors' = divisors \cup block.divisors
           /\ fault' = block.raised
           /\ pc' = IF block.raised THEN "idle" ELSE "history_section"
    /\ UNCHANGED <<history, cache, analysis_mode, button, headline, batch_input,
                   runStart, stats, msgs, headlines, i, results, csv, response>>

\* lines 361-386: the history table and the footer.  The run ends: its
\* locals are gone, and what the next run reads from the widgets is chosen
\* when that run starts, so nothing of this run is kept but the history and
\* the cache
HistorySection ==
    /\ UNCHANGED labelVars
    /\ pc = "history_section"
    /\ pc' = "idle"
    /\ analysis_mode' = "Single Headline"
    /\ button' = "none"
    /\ headline' = <<>>
    /\ batch_input' = <<>>
    /\ StartRun(<<>>)
    /\ UNCHANGED <<history, cache>>

Next ==
    \/ UserInteraction
    \/ CacheExpire
    \/ Sidebar
    \/ ClearHistory
    \/ SkipClear
    \/ SingleHeadline
    \/ BatchAnalysis
    \/ BatchIteration
    \/ BatchSummary
    \/ LiveRssFeed
    \/ RssIteration
    \/ RssSummary
    \/ HistorySection

Init ==
    /\ AppInit
    /\ compound_in = 0
    /\ label_out = "none"

Spec == Init /\ [][Next]_vars

FairSpec ==
    /\ Spec
    /\ WF_vars(Sidebar) /\ WF_vars(ClearHistory) /\ WF_vars(SkipClear)
    /\ WF_vars(SingleHeadline) /\ WF_vars(BatchAnalysis)
    /\ WF_vars(BatchIteration) /\ WF_vars(BatchSummary)
    /\ WF_vars(LiveRssFeed) /\ WF_vars(RssIteration) /\ WF_vars(RssSummary)
    /\ WF_vars(HistorySection)

----------------------------------------------------------------------------
(* The batch splitting on its own: the Batch Analysis branch, entered with *)
(* Analyze All pressed on an empty history, for every text_area content    *)
(* of up to MaxBlobLen characters                                          *)

SplitChars == {"a", "b", " ", "\n"}

RECURSIVE SeqsUpTo(_, _)
SeqsUpTo(S, n) ==
    IF n = 0 THEN {<<>>}
    ELSE LET shorter == SeqsUpTo(S, n - 1)
         IN  shorter \cup {Append(s, x) : s \in shorter, x \in S}

SplitInit ==
    /\ history = <<>>
    /\ cache = NoCache
    /\ pc = "main"
    /\ analysis_mode = "Batch Analysis"
    /\ button = "analyze_all"
    /\ headline = <<>>
    /\ batch_input \in SeqsUpTo(SplitChars, MaxBlobLen)
    /\ runStart = <<>>
    /\ stats = SidebarBlock(<<>>).shown
    /\ msgs = {}
    /\ headlines = <<>>
    /\ i = 0
    /\ results = <<>>
    /\ summary = NoSummary
    /\ csv = <<>>
    /\ divisors = {}
    /\ response = "none"
    /\ fault = FALSE
    /\ compound_in = 0
    /\ label_out = "none"

SpecSplit == SplitInit /\ [][BatchAnalysis]_vars

----------------------------------------------------------------------------
(* The threshold on its own: get_sentiment called on one compound score    *)
(* after another, over the whole range, each call one ten-thousandth away  *)
(* from the call before it                                                 *)

ScoreCall ==
    /\ \E c \in {compound_in - 1, compound_in + 1} :
          /\ c >= 0 - CompoundScale
          /\ c <= CompoundScale
          /\ compound_in' = c
          /\ label_out' =
                get_sentiment([compound |-> c, pos |-> 0, neu |-> 0, neg |-> 0]).sentiment
    /\ UNCHANGED appVars

LabelInit ==
    /\ AppInit
    /\ compound_in \in {0 - CompoundScale, 0, CompoundScale}
    /\ label_out = "none"

SpecLabel == LabelInit /\ [][ScoreCall]_vars

----------------------------------------------------------------------------
(* Properties *)

\* the label the thresholds 0.05 and -0.05 assign, in ten-thousandths
ThresholdLabel(c) ==
    IF c >= 500 THEN "Positive" ELSE IF c <= -500 THEN "Negative" ELSE "Neutral"

IsPrefix(s, t) == Len(s) <= Len(t) /\ SubSeq(t, 1, Len(s)) = s

IsBlank(text) == \A k \in 1..Len(text) : text[k] \in Whitespace

\* C1: for every compound score c of the range, the label a get_sentiment
\* call returns is Positive iff c >= 0.05, Negative iff c <= -0.05 and
\* Neutral otherwise (both thresholds inclusive); it is one of the three
\* labels, and it is decided by c whatever calls came before
C1_ThresholdLabel ==
    label_out # "none" =>
        /\ label_out \in {"Positive", "Negative", "Neutral"}
        /\ (label_out = "Positive" <=> compound_in >= 500)
        /\ (label_out = "Negative" <=> compound_in <= -500)
        /\ (label_out = "Neutral" <=> (compound_in > -500 /\ compound_in < 500))

C1_Witness == compound_in = 500 /\ label_out = "Positive"

\* the run was started by an Analyze click on an empty or whitespace-only text
BlankAnalyze ==
    \/ analysis_mode = "Single Headline" /\ button = "analyze" /\ IsBlank(headline)
    \/ analysis_mode = "Batch Analysis" /\ button = "analyze_all"
          /\ IsBlank(batch_input)

\* C2: a run started by Analyze on an empty or whitespace-only text, in
\* Single Headline or Batch Analysis mode, has shown a warning when it
\* reaches its end, has appended nothing to the history and has not faulted
C2_BlankInputWarns ==
    (BlankAnalyze /\ pc = "history_section") =>
        /\ "Please enter at least one headline." \in msgs
        /\ history = runStart
        /\ ~fault

\* C3: every step but the Clear History step leaves the history it found
\* as a prefix of the history it leaves; the Clear History step leaves the
\* empty history
C3_AppendOnly ==
    [][IF pc = "clear_button" /\ button = "clear"
       THEN history' = <<>>
       ELSE IsPrefix(history, history')]_vars

C3_Witness ==
    /\ pc = "batch_loop"
    /\ i = 2
    /\ runStart # <<>>
    /\ Len(history) = Len(runStart) + 2

\* C4: when the feed request of a Live RSS Feed run fails (connection,
\* timeout, HTTP status, parse), no exception leaves the function: its
\* error message is shown and the list it returns (and caches) is empty;
\* and a Live RSS Feed run that got the empty list shows the error of the
\* branch, classifies nothing and leaves the history as it found it
C4_FetchFailureCaught ==
    /\ response \in FetchFailures =>
          /\ ~fault
          /\ pc = "history_section"
          /\ "RSS fetch failed" \in msgs
          /\ headlines = <<>>
          /\ cache.present /\ cache.value = <<>>
    /\ (button = "fetch" /\ pc = "history_section" /\ headlines = <<>>) =>
          /\ "Failed to fetch headlines." \in msgs
          /\ results = <<>>
          /\ i = 0
          /\ history = runStart

C4_Witness ==
    /\ response = "parse_error"
    /\ pc = "history_section"
    /\ runStart # <<>>

\* a batch run that classified its headlines has reached its end
BatchDone ==
    pc = "history_section" /\ button = "analyze_all" /\ headlines # <<>>

\* one row per classified headline, in classification order
CsvRowsInOrder ==
    /\ Len(csv) = 1 + Len(headlines)
    /\ \A k \in 1..Len(headlines) :
          /\ csv[k + 1][1] = headlines[k]
          /\ csv[k + 1][2] = results[k].Sentiment

\* C5 as stated: the header is Headline, Sentiment, Compound, Positive,
\* Neutral, Negative and nothing else, followed by one row per classified
\* headline in classification order
C5_SixColumns ==
    BatchDone =>
        /\ csv[1] = <<"Headline", "Sentiment", "Compound", "Positive", "Neutral",
                      "Negative">>
        /\ CsvRowsInOrder

\* C5 amended: the header is Headline, Sentiment, Emoji, Compound,
\* Positive, Neutral, Negative and nothing else, followed by one row per
\* classified headline in classification order
C5_SevenColumns ==
    BatchDone =>
        /\ csv[1] = <<"Headline", "Sentiment", "Emoji", "Compound", "Positive",
                      "Neutral", "Negative">>
        /\ \A k \in 2..Len(csv) : Len(csv[k]) = 7
        /\ CsvRowsInOrder

C5_Witness == BatchDone /\ Len(csv) = 3 /\ csv[2][1] # csv[3][1]

\* the lines of a text, by the positions of its line breaks
Breaks(text) ==
    {0} \cup {p \in 1..Len(text) : text[p] = "\n"} \cup {Len(text) + 1}

NthBreak(text, n) ==
    CHOOSE p \in Breaks(text) : Cardinality({q \in Breaks(text) : q < p}) = n - 1

LinesOf(text) ==
    [n \in 1..(Cardinality(Breaks(text)) - 1) |->
        SubSeq(text, NthBreak(text, n) + 1, NthBreak(text, n + 1) - 1)]

HasInk(line) == \E k \in 1..Len(line) : line[k] \notin Whitespace

\* a line without its leading and trailing whitespace
Trimmed(line) ==
    LET ink == {k \in 1..Len(line) : line[k] \notin Whitespace}
    IN  IF ink = {} THEN <<>>
        ELSE SubSeq(line, CHOOSE k \in ink : \A j \in ink : k <= j,
                          CHOOSE k \in ink : \A j \in ink : k >= j)

InkLines(text) == SelectSeq(LinesOf(text), HasInk)

\* C6 as stated: the headlines of a blob are exactly its lines that hold a
\* non-whitespace character, each once, in their order
C6_LinesVerbatim ==
    pc # "main" => headlines = InkLines(batch_input)

\* C6 amended: the headlines of a blob are its lines that hold a
\* non-whitespace character, each once, in their order, each without its
\* leading and trailing whitespace
C6_LinesStripped ==
    pc # "main" =>
        headlines = [k \in 1..Len(InkLines(batch_input)) |->
                        Trimmed(InkLines(batch_input)[k])]

C6_Witness ==
    /\ pc = "batch_loop"
    /\ Len(headlines) = 2
    /\ headlines[1] # headlines[2]
    /\ Cardinality(Breaks(batch_input)) = 4

\* the run had nothing to take a percentage of
ZeroLengthRun ==
    \/ button = "analyze_all" /\ batch_input # <<>> /\ headlines = <<>>
    \/ runStart = <<>>

\* C7 as stated: a run over a zero-length batch, or over an empty history,
\* has evaluated a percentage division by zero and faulted
C7_ZeroLengthFaults ==
    (ZeroLengthRun /\ pc = "history_section") => (fault /\ 0 \in divisors)

\* C7 amended: every percentage division sits under a non-emptiness test;
\* no run divides by zero or faults, and a run over a zero-length batch on
\* an empty history ends having evaluated no division at all
C7_DivisionsGuarded ==
    /\ ~fault
    /\ 0 \notin divisors
    /\ (stats.kind = "metrics" => stats.total > 0)
    /\ (summary.shown => Len(results) > 0)
    /\ ((button = "analyze_all" /\ headlines = <<>> /\ runStart = <<>>
            /\ pc = "history_section") => divisors = {})

C7_Witness ==
    /\ pc = "history_section"
    /\ button = "analyze_all"
    /\ batch_input # <<>>
    /\ headlines = <<>>
    /\ runStart = <<>>
    /\ stats.kind = "info"

\* the sequence labels, reordered by the permutation f of its positions
Reordered(labels, f) == [k \in 1..Len(labels) |-> labels[f[k]]]

OrderFree(labels, label, n) ==
    \A f \in Permutations(1..Len(labels)) :
        CountLabel(Reordered(labels, f), label) = n

\* C8: the Positive, Negative and Neutral counts of the sidebar sum to the
\* length of the history they were taken over, those of a batch or RSS
\* summary sum to the length of the results list, and each count is the
\* same for every reordering of the records
C8_CountsSumToLength ==
    /\ stats.kind = "metrics" =>
          /\ stats.total = Len(runStart)
          /\ stats.positive + stats.negative + stats.neutral = Len(runStart)
          /\ OrderFree(HistoryLabels(runStart), "Positive", stats.positive)
          /\ OrderFree(HistoryLabels(runStart), "Negative", stats.negative)
          /\ OrderFree(HistoryLabels(runStart), "Neutral", stats.neutral)
    /\ summary.shown =>
          /\ summary.positive_count + summary.negative_count
                + summary.neutral_count = Len(results)
          /\ OrderFree(ResultLabels(results), "Positive", summary.positive_count)
          /\ OrderFree(ResultLabels(results), "Negative", summary.negative_count)
          /\ OrderFree(ResultLabels(results), "Neutral", summary.neutral_count)

C8_Witness ==
    /\ summary.shown
    /\ summary.positive_count = 1
    /\ summary.negative_count = 1
    /\ stats.kind = "metrics"
    /\ stats.neutral = 1

InLoop == pc \in {"batch_loop", "rss_loop"}

\* the first n headlines of the list have been classified, each once, and
\* their records follow the history the run found, in the list's order
ClassifiedUpTo(n) ==
    /\ i = n
    /\ Len(results) = n
    /\ Len(history) = Len(runStart) + n
    /\ SubSeq(history, 1, Len(runStart)) = runStart
    /\ \A k \in 1..n :
          /\ history[Len(runStart) + k].headline = headlines[k]
          /\ results[k].Headline = headlines[k]

C9_State ==
    /\ \A k \in 1..Len(history) :
          history[k].sentiment = ThresholdLabel(history[k].compound)
    /\ InLoop => (i <= Len(headlines) /\ ClassifiedUpTo(i))
    /\ (pc = "history_section" /\ headlines # <<>>) =>
          ClassifiedUpTo(Len(headlines))

\* C9: a batch or RSS run over N headlines leaves its loop, having
\* classified each headline once and extended the history by N records, the
\* i-th of them carrying the i-th headline; and every record of the history
\* carries the threshold label of its own compound score
C9_LoopAppendsEach ==
    /\ []C9_State
    /\ (InLoop ~> (pc = "history_section" /\ ClassifiedUpTo(Len(headlines))))

C9_Witness ==
    /\ pc = "history_section"
    /\ analysis_mode = "Live RSS Feed"
    /\ Len(headlines) = 2
    /\ headlines[1] # headlines[2]
    /\ runStart # <<>>

CountOf(h, label) == Cardinality({k \in 1..Len(h) : h[k].sentiment = label})

\* C10: from the sidebar on, the figures a run shows are the counts over
\* the history as the run found it, whatever the run has appended since
C10_SidebarBeforeAppend ==
    pc \notin {"idle", "sidebar"} =>
        IF runStart = <<>>
        THEN stats.kind = "info"
        ELSE /\ stats.kind = "metrics"
             /\ stats.total = Len(runStart)
             /\ stats.positive = CountOf(runStart, "Positive")
             /\ stats.negative = CountOf(runStart, "Negative")
             /\ stats.neutral = CountOf(runStart, "Neutral")

C10_Witness ==
    /\ pc = "history_section"
    /\ stats.kind = "metrics"
    /\ Len(history) = Len(runStart) + 2
    /\ stats.total = Len(history) - 2

====
